---------------------------- MODULE Spec2Model ----------------------------
(***************************************************************************)
(* Model of the DegreePath API (src/server/main.py): a FastAPI service in  *)
(* which every endpoint opens a private PostgreSQL connection, runs one or *)
(* more statements, shapes a response and closes the connection.  Each     *)
(* `await` of a handler is one atomic step of the model, so concurrent     *)
(* requests interleave exactly at the database round trips.                *)
(***************************************************************************)
EXTENDS Integers, Sequences, FiniteSets, TLC

(***************************************************************************)
(* Bounds of the model.                                                    *)
(***************************************************************************)
NumReq == 2          \* concurrent request slots
MaxUsers == 2        \* users the signup endpoint may create in one behaviour
MaxPlans == 2        \* rows of the plans table
MaxClock == 1        \* latest value of the database clock
MaxRequests == 3     \* requests started in one behaviour
MaxFaults == 1       \* infrastructure failures in one behaviour

(***************************************************************************)
(* Text that the database orders (school, program, user names, course      *)
(* codes) is a sequence of letter codes, compared lexicographically as     *)
(* ORDER BY does.                                                          *)
(***************************************************************************)
RECURSIVE StrLess(_, _)
StrLess(a, b) ==
    IF a = <<>> THEN b # <<>>
    ELSE IF b = <<>> THEN FALSE
    ELSE IF Head(a) < Head(b) THEN TRUE
    ELSE IF Head(a) > Head(b) THEN FALSE
    ELSE StrLess(Tail(a), Tail(b))

StrLeq(a, b) == a = b \/ StrLess(a, b)

(***************************************************************************)
(* JSON documents: tagged tuples                                           *)
(*   <<"null">>, <<"bool", b>>, <<"num", n>>, <<"float", x>>, <<"str", s>>, *)
(*   <<"arr", <<v1, ..., vn>> >>, <<"obj", << <<k1, v1>>, ... >> >>         *)
(* (an object keeps its members in insertion order, as a Python dict).     *)
(* A "num" is an int; a "float" is one of the floats that are not finite,  *)
(* named by the word json writes for it: "NaN", "Infinity", "-Infinity".   *)
(* The stored text is the sequence of tokens json.dumps writes.            *)
(***************************************************************************)
JNull == <<"null">>
JBool(b) == <<"bool", b>>
JNum(n) == <<"num", n>>
JFloat(x) == <<"float", x>>
JStr(s) == <<"str", s>>
JArr(items) == <<"arr", items>>
JObj(members) == <<"obj", members>>

TokPunct(c) == <<"p", c>>
TokWord(w) == <<"w", w>>
TokNum(n) == <<"n", n>>
TokStr(s) == <<"s", s>>

RECURSIVE json_dumps(_), DumpsItems(_), DumpsMembers(_)
json_dumps(v) ==
    CASE v[1] = "null" -> << TokWord("null") >>
      [] v[1] = "bool" -> << TokWord(IF v[2] THEN "true" ELSE "false") >>
      [] v[1] = "num" -> << TokNum(v[2]) >>
      [] v[1] = "float" -> << TokWord(v[2]) >>      \* allow_nan is True by default
      [] v[1] = "str" -> << TokStr(v[2]) >>
      [] v[1] = "arr" -> << TokPunct("[") >> \o DumpsItems(v[2]) \o << TokPunct("]") >>
      [] v[1] = "obj" -> << TokPunct("{") >> \o DumpsMembers(v[2]) \o << TokPunct("}") >>

DumpsItems(items) ==
    IF items = <<>> THEN <<>>
    ELSE json_dumps(Head(items))
         \o (IF Len(items) > 1 THEN << TokPunct(",") >> \o DumpsItems(Tail(items))
             ELSE <<>>)

DumpsMembers(members) ==
    IF members = <<>> THEN <<>>
    ELSE << TokStr(Head(members)[1]), TokPunct(":") >> \o json_dumps(Head(members)[2])
         \o (IF Len(members) > 1 THEN << TokPunct(",") >> \o DumpsMembers(Tail(members))
             ELSE <<>>)

(* json.loads: recursive descent over the tokens.  A parse step yields     *)
(* <<value, next index>>; malformed text yields the value <<"error">>      *)
(* (json.JSONDecodeError).  A repeated key keeps its last value.  The words *)
(* NaN, Infinity and -Infinity are accepted and give the float.            *)
JError == <<"error">>

TokAt(t, i) == IF i <= Len(t) THEN t[i] ELSE <<"eof">>

RECURSIVE PutMember(_, _, _)
PutMember(members, k, v) ==
    IF members = <<>> THEN << <<k, v>> >>
    ELSE IF Head(members)[1] = k THEN << <<k, v>> >> \o Tail(members)
    ELSE << Head(members) >> \o PutMember(Tail(members), k, v)

RECURSIVE ParseValue(_, _), ParseItems(_, _, _), ParseMembers(_, _, _)
ParseValue(t, i) ==
    LET tok == TokAt(t, i) IN
    CASE tok[1] = "w" ->
            << (CASE tok[2] = "null" -> JNull
                  [] tok[2] = "true" -> JBool(TRUE)
                  [] tok[2] = "false" -> JBool(FALSE)
                  [] tok[2] \in {"NaN", "Infinity", "-Infinity"} -> JFloat(tok[2])
                  [] OTHER -> JError), i + 1 >>
      [] tok[1] = "n" -> << JNum(tok[2]), i + 1 >>
      [] tok[1] = "s" -> << JStr(tok[2]), i + 1 >>
      [] tok = TokPunct("[") ->
            IF TokAt(t, i + 1) = TokPunct("]") THEN << JArr(<<>>), i + 2 >>
            ELSE ParseItems(t, i + 1, <<>>)
      [] tok = TokPunct("{") ->
            IF TokAt(t, i + 1) = TokPunct("}") THEN << JObj(<<>>), i + 2 >>
            ELSE ParseMembers(t, i + 1, <<>>)
      [] OTHER -> << JError, i + 1 >>

ParseItems(t, i, acc) ==
    LET r == ParseValue(t, i) IN
    IF r[1] = JError THEN r
    ELSE IF TokAt(t, r[2]) = TokPunct(",") THEN ParseItems(t, r[2] + 1, Append(acc, r[1]))
    ELSE IF TokAt(t, r[2]) = TokPunct("]") THEN << JArr(Append(acc, r[1])), r[2] + 1 >>
    ELSE << JError, r[2] >>

ParseMembers(t, i, acc) ==
    IF TokAt(t, i)[1] # "s" \/ TokAt(t, i + 1) # TokPunct(":") THEN << JError, i >>
    ELSE LET k == TokAt(t, i)[2]
             r == ParseValue(t, i + 2) IN
         IF r[1] = JError THEN r
         ELSE IF TokAt(t, r[2]) = TokPunct(",")
              THEN ParseMembers(t, r[2] + 1, PutMember(acc, k, r[1]))
         ELSE IF TokAt(t, r[2]) = TokPunct("}")
              THEN << JObj(PutMember(acc, k, r[1])), r[2] + 1 >>
         ELSE << JError, r[2] >>

json_loads(t) ==
    LET r == ParseValue(t, 1) IN
    IF r[1] # JError /\ r[2] = Len(t) + 1 THEN r[1] ELSE JError

(* Equality of two documents as Python's == decides it.  bool is a         *)
(* subclass of int (True == 1, False == 0); nan is equal to no float, nan  *)
(* included; lists compare element by element and dicts key by key,        *)
(* whatever the order of the members, and both take an element that is the *)
(* same object on the two sides for equal without comparing it.  same_nan  *)
(* tells whether the nans of a and b are one object (json.loads returns    *)
(* the one constant json.decoder.NaN for every NaN it reads) or not.       *)
IsNumber(v) == v[1] \in {"bool", "num"}
NumVal(v) == IF v[1] = "bool" THEN (IF v[2] THEN 1 ELSE 0) ELSE v[2]

RECURSIVE JsonEq(_, _, _), ItemEq(_, _, _)
JsonEq(a, b, same_nan) ==
    IF IsNumber(a) /\ IsNumber(b) THEN NumVal(a) = NumVal(b)
    ELSE IF a[1] # b[1] THEN FALSE
    ELSE IF a[1] = "float" THEN a[2] = b[2] /\ a[2] # "NaN"
    ELSE IF a[1] = "arr"
         THEN /\ Len(a[2]) = Len(b[2])
              /\ \A i \in 1..Len(a[2]) : ItemEq(a[2][i], b[2][i], same_nan)
    ELSE IF a[1] = "obj"
         THEN /\ Len(a[2]) = Len(b[2])
              /\ \A i \in 1..Len(a[2]) :
                    \E j \in 1..Len(b[2]) :
                       /\ a[2][i][1] = b[2][j][1]
                       /\ ItemEq(a[2][i][2], b[2][j][2], same_nan)
    ELSE IF a[1] \in {"null", "error"} THEN TRUE
    ELSE a[2] = b[2]

\* x is y or x == y
ItemEq(a, b, same_nan) ==
    \/ same_nan /\ a = JFloat("NaN") /\ b = JFloat("NaN")
    \/ JsonEq(a, b, same_nan)

(* The plan payloads requests submit (CreatePlan.plan_data is a dict): the *)
(* documents JSON represents, so without the floats that are not finite.   *)
Payloads ==
    { JObj(<<>>),
      JObj(<< <<"courses", JArr(<< JStr("CS101"), JNum(3), JNull, JBool(TRUE) >>)>>,
              <<"meta", JObj(<< <<"done", JBool(FALSE)>>, <<"tags", JArr(<<>>)>> >>)>> >>) }

(***************************************************************************)
(* Configuration read from the environment (module level).                 *)
(***************************************************************************)
DB_HOST == "localhost"
DB_PORT == "5432"
DB_NAME == "degreepath"
DB_USER == "planner"
DB_PASSWORD == "secret"
DATABASE_URL == <<"postgresql://", DB_USER, DB_PASSWORD, DB_HOST, DB_PORT, DB_NAME>>

(***************************************************************************)
(* Request inputs and the rows the store is populated with.                *)
(***************************************************************************)
Req == 1..NumReq
Emails == {"a@x.com", "b@x.com"}
UserNames == { <<1>> }
UserIdArgs == {0, 1}
ProgramIdArgs == {0, 1, 3}
SchoolArgs == { <<2>>, <<3>> }
AllTables == {"courses", "plans", "programs", "users"}

ProgramRows ==
    { [id |-> 0, school_name |-> <<2>>, program_name |-> <<1>>, degree_type |-> "BS"],
      [id |-> 1, school_name |-> <<1>>, program_name |-> <<2>>, degree_type |-> "BA"],
      [id |-> 2, school_name |-> <<2>>, program_name |-> <<1, 1>>, degree_type |-> "BS"] }

CourseRows ==
    { [id |-> 1, program_id |-> 1, code |-> <<2>>, title |-> "Algorithms", credits |-> 4,
       offered_terms |-> <<"Fall">>, prerequisites |-> << <<1>> >>],
      [id |-> 2, program_id |-> 1, code |-> <<1>>, title |-> "Programming", credits |-> 3,
       offered_terms |-> <<"Fall", "Spring">>, prerequisites |-> <<>>],
      [id |-> 3, program_id |-> 0, code |-> <<1>>, title |-> "Calculus", credits |-> 4,
       offered_terms |-> <<"Spring">>, prerequisites |-> <<>>] }

SeedUsers ==
    { [id |-> 0, email |-> "a@x.com", name |-> <<2>>],
      [id |-> 1, email |-> "s@x.com", name |-> <<1>>] }

VARIABLES
    tables,       \* names of the tables of the connected database
    users,        \* rows of users(id, email unique, name)
    programs,     \* rows of programs(id, school_name, program_name, degree_type)
    courses,      \* rows of courses(...)
    plans,        \* rows of plans(id, user_id, program_id, plan_data text, created_at)
    nextUserId,   \* the users id sequence
    nextPlanId,   \* the plans id sequence
    clock,        \* the database clock that stamps created_at
    req,          \* the requests in flight: one record per slot
    idLog,        \* ids returned by INSERT INTO users ... RETURNING, in order
    submitted,    \* history: <<plan id, payload>> for every plan saved
    started,      \* requests started so far
    faults        \* infrastructure failures injected so far

store == <<tables, users, programs, courses, plans, nextUserId, nextPlanId, clock>>
vars == <<tables, users, programs, courses, plans, nextUserId, nextPlanId, clock,
          req, idLog, submitted, started, faults>>

Idle ==
    [op |-> "idle", pc |-> "idle", conn |-> "none", user_id |-> 0, program_id |-> 0,
     email |-> "", name |-> <<>>, school_name |-> <<>>, plan_data |-> JNull,
     err |-> "none", status |-> 0, detail |-> "", body |-> <<>>, trail |-> <<>>]

SetMax(S) ==
    IF S = {} THEN 0
    ELSE LET m == CHOOSE m \in S : \A n \in S : n <= m IN m

Init ==
    /\ tables \in {AllTables, {}}
    /\ programs = (IF tables = {} THEN {} ELSE ProgramRows)
    /\ users \in (IF tables = {} THEN {{}} ELSE {{}, SeedUsers})
    /\ courses = {c \in CourseRows : \E p \in programs : p.id = c.program_id}
    /\ plans = {}
    /\ nextUserId = SetMax({u.id : u \in users}) + 1
    /\ nextPlanId = 1
    /\ clock = 0
    /\ req = [r \in Req |-> Idle]
    /\ idLog = <<>>
    /\ submitted = {}
    /\ started = 0
    /\ faults = 0

(***************************************************************************)
(* The database side of a statement.                                       *)
(***************************************************************************)
\* A statement over tables tbls raises when one of them is missing, and may
\* raise for any other infrastructure reason.
MayRaise(tbls) == ~(tbls \subseteq tables) \/ faults < MaxFaults
Raised(tbls) == faults' = IF tbls \subseteq tables THEN faults + 1 ELSE faults
Runs(tbls) == tbls \subseteq tables /\ UNCHANGED faults

\* (variant: the WHERE clause is missing, the id of some row comes back)
SelectUserId_NoWhere(user_id) ==
    IF users = {} THEN {} ELSE {SetMax({u.id : u \in users})}

\* fetchval / fetchrow of a query that selects at most one row: the value, or
\* None when no row matches.  None is {}, a value v is {v}.
SelectUserId(user_id) == {u.id : u \in {u \in users : u.id = user_id}}
SelectProgramId(program_id) == {p.id : p \in {p \in programs : p.id = program_id}}
SelectProgram(program_id) == {p \in programs : p.id = program_id}
SelectUser(user_id) == {u \in users : u.id = user_id}

\* (variant: the existence checks are missing)
Falsy_Unchecked(v) == FALSE

\* Python truth of a fetched value: None and 0 are false.
Falsy(v) == v = {} \/ v = {0}
\* Python truth of a fetched row: None is false, a Record with columns is true.
NoRow(v) == v = {}

\* The rows of S in the order ORDER BY gives them: every arrangement that is
\* sorted by the relation leq, a set of pairs <<a, b>> with a not after b (rows
\* that compare equal come in any order).
OrderBy(S, leq) ==
    {q \in [1..Cardinality(S) -> S] :
        /\ \A i, j \in 1..Cardinality(S) : i # j => q[i] # q[j]
        /\ \A i, j \in 1..Cardinality(S) : i < j => <<q[i], q[j]>> \in leq}

(***************************************************************************)
(* get_database_connection, and the shape shared by the handlers.          *)
(***************************************************************************)
ConnectErrors ==
    {"InvalidPasswordError", "InvalidCatalogNameError", "ConnectionDoesNotExistError",
     "Exception"}

ConnectDetail(kind) ==
    CASE kind = "InvalidPasswordError" -> "Database authentication failed"
      [] kind = "InvalidCatalogNameError" -> "Database '" \o DB_NAME \o "' not found"
      [] kind = "ConnectionDoesNotExistError" -> "Database server not reachable"
      [] OTHER -> "Database connection failed"

\* A free slot takes the next request (the lowest free slot first).
Accepts(r) ==
    /\ req[r].pc = "idle"
    /\ \A s \in Req : s < r => req[s].pc # "idle"
    /\ started < MaxRequests
    /\ started' = started + 1

\* conn = await get_database_connection(), called before the try block: the
\* connection, or HTTPException(500) out of the handler.
get_database_connection(r, q, first) ==
    \/ /\ req' = [req EXCEPT ![r] = [q EXCEPT !.conn = "open", !.pc = first]]
       /\ UNCHANGED faults
    \/ /\ faults < MaxFaults
       /\ faults' = faults + 1
       /\ \E kind \in ConnectErrors :
             req' = [req EXCEPT ![r] = [q EXCEPT !.pc = "done", !.status = 500,
                                                 !.err = kind,
                                                 !.detail = ConnectDetail(kind)]]

\* The handler leaves its try block with a response or an HTTPException.
Leave(q, status, detail, body, stmt) ==
    [q EXCEPT !.pc = "close", !.status = status, !.detail = detail, !.body = body,
              !.trail = Append(q.trail, stmt)]

\* except Exception as e: raise HTTPException(500, "Database error: ...")
Except500(q, stmt) ==
    [Leave(q, 500, "Database error: ...", <<>>, stmt) EXCEPT !.err = "StatementError"]

Step(q, pc, stmt) == [q EXCEPT !.pc = pc, !.trail = Append(q.trail, stmt)]

\* finally: await conn.close(), then the response or the HTTPException leaves
\* the handler.  When close() raises, its exception leaves the handler in their
\* place: the caller gets a 500 without the detail or the body, whatever the try
\* block did before.  (asyncpg drops the connection also when close() raises.)
finally_close(r) ==
    /\ req[r].pc = "close"
    /\ \/ /\ req' = [req EXCEPT ![r].conn = "closed", ![r].pc = "done"]
          /\ UNCHANGED faults
       \/ /\ faults < MaxFaults
          /\ faults' = faults + 1
          /\ req' = [req EXCEPT ![r] = [@ EXCEPT !.conn = "closed", !.pc = "done",
                                                 !.status = 500, !.err = "CloseError",
                                                 !.detail = "", !.body = <<>>]]
    /\ UNCHANGED <<store, idLog, submitted, started>>

\* The response is delivered and the slot is free again.
respond(r) ==
    /\ req[r].pc = "done"
    /\ req' = [req EXCEPT ![r] = Idle]
    /\ UNCHANGED <<store, idLog, submitted, started, faults>>

\* The id columns default to the next value of their sequence.
UsersIdDefault == nextUserId
PlansIdDefault == nextPlanId

\* created_at defaults to the time of the insert: the database clock never
\* runs backwards, and it may or may not have advanced since the last insert.
Now == {t \in {clock, clock + 1} : t <= MaxClock}

(***************************************************************************)
(* GET /schools                                                            *)
(***************************************************************************)
get_all_schools(r) ==
    /\ Accepts(r)
    /\ get_database_connection(r, [Idle EXCEPT !.op = "get_all_schools"], "fetch")
    /\ UNCHANGED <<store, idLog, submitted>>

\* (variant: DISTINCT is missing, every program row yields a row)
SelectSchoolNames_All == {[school_name |-> p.school_name, of |-> p.id] : p \in programs}

\* SELECT DISTINCT school_name FROM programs
SelectSchoolNames == {[school_name |-> p.school_name] : p \in programs}

\* ORDER BY school_name
SchoolNameLeq(a, b) == StrLeq(a.school_name, b.school_name)

get_all_schools_fetch(r) ==
    /\ req[r].op = "get_all_schools" /\ req[r].pc = "fetch"
    /\ \/ /\ MayRaise({"programs"}) /\ Raised({"programs"})
          /\ req' = [req EXCEPT ![r] = Except500(@, "schools")]
       \/ /\ Runs({"programs"})
          /\ \E rows \in OrderBy(SelectSchoolNames,
                                 {x \in SelectSchoolNames \X SelectSchoolNames :
                                     SchoolNameLeq(x[1], x[2])}) :
                LET schools == [i \in 1..Len(rows) |-> rows[i].school_name] IN
                req' = [req EXCEPT ![r] =
                          Leave(@, 200, "", << [schools |-> schools, count |-> Len(schools)] >>,
                                "schools")]
    /\ UNCHANGED <<store, idLog, submitted, started>>

(***************************************************************************)
(* GET /schools/{school_name}/programs                                     *)
(***************************************************************************)
get_programs_for_school(r) ==
    /\ Accepts(r)
    /\ \E school_name \in SchoolArgs :
          get_database_connection(r, [Idle EXCEPT !.op = "get_programs_for_school",
                                                  !.school_name = school_name], "fetch")
    /\ UNCHANGED <<store, idLog, submitted>>

\* SELECT ... FROM programs WHERE school_name = $1
SelectPrograms(school_name) == {p \in programs : p.school_name = school_name}

\* ORDER BY program_name
ProgramNameLeq(a, b) == StrLeq(a.program_name, b.program_name)

get_programs_for_school_fetch(r) ==
    /\ req[r].op = "get_programs_for_school" /\ req[r].pc = "fetch"
    /\ \/ /\ MayRaise({"programs"}) /\ Raised({"programs"})
          /\ req' = [req EXCEPT ![r] = Except500(@, "programs")]
       \/ /\ Runs({"programs"})
          /\ \E rows \in OrderBy(SelectPrograms(req[r].school_name),
                                 {x \in programs \X programs :
                                     ProgramNameLeq(x[1], x[2])}) :
                req' = [req EXCEPT ![r] =
                          Leave(@, 200, "",
                                << [school |-> req[r].school_name, programs |-> rows,
                                    count |-> Len(rows)] >>, "programs")]
    /\ UNCHANGED <<store, idLog, submitted, started>>

(***************************************************************************)
(* POST /users                                                             *)
(***************************************************************************)
InFlight(op) == Cardinality({s \in Req : req[s].op = op /\ req[s].pc \notin {"idle", "done"}})

\* users.email is UNIQUE: the insert of a present email raises UniqueViolationError.
EmailTaken(email) == \E u \in users : u.email = email

create_new_user(r) ==
    /\ Accepts(r)
    /\ \E email \in Emails, name \in UserNames :
          /\ EmailTaken(email) \/ Len(idLog) + InFlight("create_new_user") < MaxUsers
          /\ get_database_connection(r, [Idle EXCEPT !.op = "create_new_user",
                                                     !.email = email, !.name = name],
                                     "insert")
    /\ UNCHANGED <<store, idLog, submitted>>

\* (variant: no except clause for UniqueViolationError, the catch-all answers)
create_new_user_conflict_Uncaught(q) == Leave(q, 500, "Database error: ...", <<>>, "insert")

\* except asyncpg.UniqueViolationError: raise HTTPException(400, "Email already exists")
create_new_user_conflict(q) == Leave(q, 400, "Email already exists", <<>>, "insert")

\* INSERT INTO users (email, name) VALUES ($1, $2) RETURNING id, email, name
create_new_user_insert(r) ==
    /\ req[r].op = "create_new_user" /\ req[r].pc = "insert"
    /\ \/ /\ MayRaise({"users"}) /\ Raised({"users"})
          /\ req' = [req EXCEPT ![r] = Except500(@, "insert")]
          /\ UNCHANGED <<users, nextUserId, idLog>>
       \/ /\ Runs({"users"})
          /\ EmailTaken(req[r].email)
          /\ req' = [req EXCEPT ![r] = create_new_user_conflict(@)]
          \* the id sequence may have handed out a value to the rejected row
          /\ nextUserId' \in {nextUserId, nextUserId + 1}
          /\ UNCHANGED <<users, idLog>>
       \/ /\ Runs({"users"})
          /\ ~EmailTaken(req[r].email)
          /\ LET row == [id |-> UsersIdDefault, email |-> req[r].email, name |-> req[r].name] IN
             /\ users' = users \cup {row}
             /\ idLog' = Append(idLog, row.id)
             /\ req' = [req EXCEPT ![r] =
                          Leave(@, 200, "User created successfully", << row >>, "insert")]
          /\ nextUserId' = nextUserId + 1
    /\ UNCHANGED <<tables, programs, courses, plans, nextPlanId, clock, submitted, started>>

(***************************************************************************)
(* POST /users/{user_id}/plans                                             *)
(***************************************************************************)
save_degree_plan(r) ==
    /\ Accepts(r)
    /\ Cardinality(plans) + InFlight("save_degree_plan") < MaxPlans
    /\ \E user_id \in UserIdArgs, program_id \in ProgramIdArgs, plan_data \in Payloads :
          get_database_connection(r, [Idle EXCEPT !.op = "save_degree_plan",
                                                  !.user_id = user_id,
                                                  !.program_id = program_id,
                                                  !.plan_data = plan_data], "user_check")
    /\ UNCHANGED <<store, idLog, submitted>>

\* user_check = await conn.fetchval("SELECT id FROM users WHERE id = $1", user_id)
\* if not user_check: raise HTTPException(404, "User not found")
save_degree_plan_user_check(r) ==
    /\ req[r].op = "save_degree_plan" /\ req[r].pc = "user_check"
    /\ \/ /\ MayRaise({"users"}) /\ Raised({"users"})
          /\ req' = [req EXCEPT ![r] = Except500(@, "user_check")]
       \/ /\ Runs({"users"})
          /\ LET user_check == SelectUserId(req[r].user_id) IN
             req' = [req EXCEPT ![r] =
                       IF Falsy(user_check)
                       THEN Leave(@, 404, "User not found", <<>>, "user_check")
                       ELSE Step(@, "program_check", "user_check")]
    /\ UNCHANGED <<store, idLog, submitted, started>>

\* program_check = await conn.fetchval("SELECT id FROM programs WHERE id = $1", ...)
\* if not program_check: raise HTTPException(404, "Program not found")
save_degree_plan_program_check(r) ==
    /\ req[r].op = "save_degree_plan" /\ req[r].pc = "program_check"
    /\ \/ /\ MayRaise({"programs"}) /\ Raised({"programs"})
          /\ req' = [req EXCEPT ![r] = Except500(@, "program_check")]
       \/ /\ Runs({"programs"})
          /\ LET program_check == SelectProgramId(req[r].program_id) IN
             req' = [req EXCEPT ![r] =
                       IF Falsy(program_check)
                       THEN Leave(@, 404, "Program not found", <<>>, "program_check")
                       ELSE Step(@, "insert", "program_check")]
    /\ UNCHANGED <<store, idLog, submitted, started>>

\* INSERT INTO plans (user_id, program_id, plan_data) VALUES ($1, $2, $3)
\* RETURNING id, created_at      with $3 = json.dumps(plan_data.plan_data)
save_degree_plan_insert(r) ==
    /\ req[r].op = "save_degree_plan" /\ req[r].pc = "insert"
    /\ \/ /\ MayRaise({"plans"}) /\ Raised({"plans"})
          /\ req' = [req EXCEPT ![r] = Except500(@, "insert")]
          /\ UNCHANGED <<plans, nextPlanId, clock, submitted>>
       \/ /\ Runs({"plans"})
          /\ \E now \in Now :
             LET row == [id |-> PlansIdDefault, user_id |-> req[r].user_id,
                         program_id |-> req[r].program_id,
                         plan_data |-> json_dumps(req[r].plan_data),
                         created_at |-> now] IN
             /\ plans' = plans \cup {row}
             /\ clock' = now
             /\ submitted' = submitted \cup {<<row.id, req[r].plan_data>>}
             /\ req' = [req EXCEPT ![r] =
                          Leave(@, 200, "Plan saved successfully",
                                << [plan_id |-> row.id, created_at |-> row.created_at] >>,
                                "insert")]
          /\ nextPlanId' = nextPlanId + 1
    /\ UNCHANGED <<tables, users, programs, courses, nextUserId, idLog, started>>

(***************************************************************************)
(* GET /users/{user_id}/plans                                              *)
(***************************************************************************)
get_user_plans(r) ==
    /\ Accepts(r)
    /\ \E user_id \in UserIdArgs :
          get_database_connection(r, [Idle EXCEPT !.op = "get_user_plans",
                                                  !.user_id = user_id], "fetch")
    /\ UNCHANGED <<store, idLog, submitted>>

\* FROM plans p JOIN programs pr ON p.program_id = pr.id WHERE p.user_id = $1
JoinedPlans(user_id) ==
    {[id |-> p.id, user_id |-> p.user_id, program_id |-> p.program_id,
      plan_data |-> p.plan_data, created_at |-> p.created_at,
      school_name |-> pr.school_name, program_name |-> pr.program_name,
      degree_type |-> pr.degree_type] :
        <<p, pr>> \in {x \in plans \X programs :
                          x[1].program_id = x[2].id /\ x[1].user_id = user_id}}

\* (variant: ORDER BY p.created_at, oldest first)
CreatedAtDesc_Asc(a, b) == a.created_at <= b.created_at

\* ORDER BY p.created_at DESC
CreatedAtDesc(a, b) == a.created_at >= b.created_at

\* plan['plan_data'] = json.loads(plan['plan_data'])
LoadedPlan(row) == [row EXCEPT !.plan_data = json_loads(@)]

get_user_plans_fetch(r) ==
    /\ req[r].op = "get_user_plans" /\ req[r].pc = "fetch"
    /\ \/ /\ MayRaise({"plans", "programs"}) /\ Raised({"plans", "programs"})
          /\ req' = [req EXCEPT ![r] = Except500(@, "plans")]
       \/ /\ Runs({"plans", "programs"})
          /\ \E rows \in OrderBy(JoinedPlans(req[r].user_id),
                                 {x \in JoinedPlans(req[r].user_id)
                                            \X JoinedPlans(req[r].user_id) :
                                     CreatedAtDesc(x[1], x[2])}) :
                LET loaded == [i \in 1..Len(rows) |-> LoadedPlan(rows[i])] IN
                req' = [req EXCEPT ![r] =
                          IF \E i \in 1..Len(rows) : loaded[i].plan_data = JError
                          THEN Except500(@, "plans")
                          ELSE Leave(@, 200, "",
                                     << [user_id |-> req[r].user_id, plans |-> loaded,
                                         count |-> Len(loaded)] >>, "plans")]
    /\ UNCHANGED <<store, idLog, submitted, started>>

(***************************************************************************)
(* GET /programs/{program_id}/courses                                      *)
(***************************************************************************)
get_courses_for_program(r) ==
    /\ Accepts(r)
    /\ \E program_id \in ProgramIdArgs :
          get_database_connection(r, [Idle EXCEPT !.op = "get_courses_for_program",
                                                  !.program_id = program_id], "program")
    /\ UNCHANGED <<store, idLog, submitted>>

\* (variant: no "except HTTPException: raise", the catch-all turns the 404 into 500)
get_courses_for_program_not_found_Translated(q) ==
    Leave(q, 500, "Database error: ...", <<>>, "program")

\* raise HTTPException(404, ...), re-raised unchanged by "except HTTPException: raise"
get_courses_for_program_not_found(q) ==
    Leave(q, 404, "Program with id " \o ToString(q.program_id) \o " not found", <<>>,
          "program")

\* program = await conn.fetchrow("SELECT program_name, school_name FROM programs ...")
\* if not program: raise HTTPException(404, "Program with id ... not found")
get_courses_for_program_program(r) ==
    /\ req[r].op = "get_courses_for_program" /\ req[r].pc = "program"
    /\ \/ /\ MayRaise({"programs"}) /\ Raised({"programs"})
          /\ req' = [req EXCEPT ![r] = Except500(@, "program")]
       \/ /\ Runs({"programs"})
          /\ LET program == SelectProgram(req[r].program_id) IN
             req' = [req EXCEPT ![r] =
                       IF NoRow(program)
                       THEN get_courses_for_program_not_found(@)
                       ELSE [Step(@, "courses", "program") EXCEPT
                               !.body = << CHOOSE p \in program : TRUE >>]]
    /\ UNCHANGED <<store, idLog, submitted, started>>

\* SELECT ... FROM courses WHERE program_id = $1
SelectCourses(program_id) == {c \in courses : c.program_id = program_id}

\* ORDER BY code
CodeLeq(a, b) == StrLeq(a.code, b.code)

\* SELECT ... FROM courses WHERE program_id = $1 ORDER BY code
get_courses_for_program_courses(r) ==
    /\ req[r].op = "get_courses_for_program" /\ req[r].pc = "courses"
    /\ \/ /\ MayRaise({"courses"}) /\ Raised({"courses"})
          /\ req' = [req EXCEPT ![r] = Except500(@, "courses")]
       \/ /\ Runs({"courses"})
          /\ \E rows \in OrderBy(SelectCourses(req[r].program_id),
                                 {x \in courses \X courses : CodeLeq(x[1], x[2])}) :
                req' = [req EXCEPT ![r] =
                          Leave(@, 200, "",
                                << [program_id |-> req[r].program_id,
                                    program_name |-> req[r].body[1].program_name,
                                    school_name |-> req[r].body[1].school_name,
                                    courses |-> rows,
                                    total_courses |-> Len(rows)] >>, "courses")]
    /\ UNCHANGED <<store, idLog, submitted, started>>

(***************************************************************************)
(* GET /users and GET /users/{user_id}                                     *)
(***************************************************************************)
get_all_users(r) ==
    /\ Accepts(r)
    /\ get_database_connection(r, [Idle EXCEPT !.op = "get_all_users"], "fetch")
    /\ UNCHANGED <<store, idLog, submitted>>

\* ORDER BY name
NameLeq(a, b) == StrLeq(a.name, b.name)

\* SELECT id, email, name FROM users ORDER BY name
get_all_users_fetch(r) ==
    /\ req[r].op = "get_all_users" /\ req[r].pc = "fetch"
    /\ \/ /\ MayRaise({"users"}) /\ Raised({"users"})
          /\ req' = [req EXCEPT ![r] = Except500(@, "users")]
       \/ /\ Runs({"users"})
          /\ \E rows \in OrderBy(users, {x \in users \X users : NameLeq(x[1], x[2])}) :
                req' = [req EXCEPT ![r] =
                          Leave(@, 200, "", << [users |-> rows, count |-> Len(rows)] >>,
                                "users")]
    /\ UNCHANGED <<store, idLog, submitted, started>>

get_user(r) ==
    /\ Accepts(r)
    /\ \E user_id \in UserIdArgs :
          get_database_connection(r, [Idle EXCEPT !.op = "get_user",
                                                  !.user_id = user_id], "fetch")
    /\ UNCHANGED <<store, idLog, submitted>>

\* row = await conn.fetchrow("SELECT id, email, name FROM users WHERE id = $1", user_id)
\* if not row: raise HTTPException(404, "User with id ... not found")
get_user_fetch(r) ==
    /\ req[r].op = "get_user" /\ req[r].pc = "fetch"
    /\ \/ /\ MayRaise({"users"}) /\ Raised({"users"})
          /\ req' = [req EXCEPT ![r] = Except500(@, "user")]
       \/ /\ Runs({"users"})
          /\ LET row == SelectUser(req[r].user_id) IN
             req' = [req EXCEPT ![r] =
                       IF NoRow(row)
                       THEN Leave(@, 404,
                                  "User with id " \o ToString(req[r].user_id) \o " not found",
                                  <<>>, "user")
                       ELSE Leave(@, 200, "", << CHOOSE u \in row : TRUE >>, "user")]
    /\ UNCHANGED <<store, idLog, submitted, started>>

(***************************************************************************)
(* GET /test-db: everything, the connection included, is inside one try    *)
(* whose except returns the diagnostic payload; there is no finally.       *)
(***************************************************************************)
ErrorPayload(message) ==
    [status |-> "error", message |-> message,
     database_url_format |-> <<"postgresql://", DB_USER, "***", DB_HOST, DB_PORT, DB_NAME>>,
     connection_details |->
        [host |-> DB_HOST, port |-> DB_PORT, database |-> DB_NAME, user |-> DB_USER]]

\* (variant: the except clause does not cover the exception, which leaves the
\* handler and is answered with a 500)
test_database_except_Propagates(q, kind, message, stmt) ==
    [q EXCEPT !.pc = "done", !.status = 500, !.err = kind, !.detail = message,
              !.trail = Append(q.trail, stmt)]

\* except Exception as e: return {"status": "error", ...}
test_database_except(q, kind, message, stmt) ==
    [q EXCEPT !.pc = "done", !.status = 200, !.err = kind,
              !.body = << ErrorPayload(message) >>, !.trail = Append(q.trail, stmt)]

test_database(r) ==
    /\ Accepts(r)
    /\ LET q == [Idle EXCEPT !.op = "test_database"] IN
       \/ /\ req' = [req EXCEPT ![r] = [q EXCEPT !.conn = "open", !.pc = "db_name"]]
          /\ UNCHANGED faults
       \/ /\ faults < MaxFaults
          /\ faults' = faults + 1
          /\ \E kind \in ConnectErrors :
                req' = [req EXCEPT ![r] =
                          test_database_except(q, kind,
                                               "Database error: 500: " \o ConnectDetail(kind),
                                               "connect")]
    /\ UNCHANGED <<store, idLog, submitted>>

\* db_name = await conn.fetchval("SELECT current_database()")
test_database_db_name(r) ==
    /\ req[r].op = "test_database" /\ req[r].pc = "db_name"
    /\ \/ /\ MayRaise({}) /\ Raised({})
          /\ req' = [req EXCEPT ![r] =
                       test_database_except(@, "StatementError", "Database error: ...", "db_name")]
       \/ /\ Runs({})
          /\ req' = [req EXCEPT ![r] =
                       [Step(@, "tables", "db_name") EXCEPT
                           !.body = << [database_name |-> DB_NAME] >>]]
    /\ UNCHANGED <<store, idLog, submitted, started>>

\* tables = await conn.fetch(tables_query); programs_count = None
\* if 'programs' in table_names: ... (the count is one more round trip)
test_database_tables(r) ==
    /\ req[r].op = "test_database" /\ req[r].pc = "tables"
    /\ \/ /\ MayRaise({}) /\ Raised({})
          /\ req' = [req EXCEPT ![r] =
                       test_database_except(@, "StatementError", "Database error: ...", "tables")]
       \/ /\ Runs({})
          /\ LET table_names == tables
                 locals == [database_name |-> req[r].body[1].database_name,
                            tables_found |-> table_names, programs_count |-> {}] IN
             req' = [req EXCEPT ![r] =
                       [Step(@, IF "programs" \in table_names THEN "count" ELSE "close_conn",
                             "tables") EXCEPT !.body = << locals >>]]
    /\ UNCHANGED <<store, idLog, submitted, started>>

\* programs_count = await conn.fetchval("SELECT COUNT(*) FROM programs")
test_database_count(r) ==
    /\ req[r].op = "test_database" /\ req[r].pc = "count"
    /\ \/ /\ MayRaise({"programs"}) /\ Raised({"programs"})
          /\ req' = [req EXCEPT ![r] =
                       test_database_except(@, "StatementError", "Database error: ...", "count")]
       \/ /\ Runs({"programs"})
          /\ req' = [req EXCEPT ![r] =
                       [Step(@, "close_conn", "count") EXCEPT
                           !.body = << [@[1] EXCEPT
                                          !.programs_count = {Cardinality(programs)}] >>]]
    /\ UNCHANGED <<store, idLog, submitted, started>>

\* await conn.close(); return {"status": "success", ...}
\* (asyncpg drops the connection also when close() raises)
test_database_close(r) ==
    /\ req[r].op = "test_database" /\ req[r].pc = "close_conn"
    /\ \/ /\ MayRaise({}) /\ Raised({})
          /\ req' = [req EXCEPT ![r] =
                       [test_database_except(@, "StatementError", "Database error: ...", "close")
                           EXCEPT !.conn = "closed"]]
       \/ /\ Runs({})
          /\ req' = [req EXCEPT ![r] =
                       [@ EXCEPT !.pc = "done", !.status = 200, !.conn = "closed",
                                 !.trail = Append(@, "close"),
                                 !.body = << [status |-> "success",
                                              message |-> "Database connection working!",
                                              database_name |-> req[r].body[1].database_name,
                                              tables_found |-> req[r].body[1].tables_found,
                                              programs_count |->
                                                 req[r].body[1].programs_count] >>]]
    /\ UNCHANGED <<store, idLog, submitted, started>>

(***************************************************************************)
(* The service: any free slot takes any request, any request in flight     *)
(* takes its next step.                                                    *)
(***************************************************************************)
Next ==
    \E r \in Req :
          \/ get_all_schools(r) \/ get_all_schools_fetch(r)
          \/ get_programs_for_school(r) \/ get_programs_for_school_fetch(r)
          \/ create_new_user(r) \/ create_new_user_insert(r)
          \/ save_degree_plan(r) \/ save_degree_plan_user_check(r)
          \/ save_degree_plan_program_check(r) \/ save_degree_plan_insert(r)
          \/ get_user_plans(r) \/ get_user_plans_fetch(r)
          \/ get_courses_for_program(r) \/ get_courses_for_program_program(r)
          \/ get_courses_for_program_courses(r)
          \/ get_all_users(r) \/ get_all_users_fetch(r)
          \/ get_user(r) \/ get_user_fetch(r)
          \/ test_database(r) \/ test_database_db_name(r) \/ test_database_tables(r)
          \/ test_database_count(r) \/ test_database_close(r)
          \/ finally_close(r)
          \/ respond(r)

Spec == Init /\ [][Next]_vars

(***************************************************************************)
(* Properties.  A request's err field is "none" unless one of its database *)
(* round trips failed for an infrastructure reason (connection refused,    *)
(* statement raised, close raised); the contract properties of the         *)
(* business paths are stated for the round trips that the database         *)
(* answers.                                                                *)
(***************************************************************************)
Ended(q) == q.pc \in {"close", "done"}
StepOf(r, op, pc) == req[r].op = op /\ req[r].pc = pc /\ req'[r].pc # pc
Answered(r) == req'[r].err = "none"
\* the close that is answered hands the caller what the try block left
Delivered(r) ==
    /\ req'[r].pc = "done" /\ req'[r].conn = "closed"
    /\ req'[r].status = req[r].status /\ req'[r].detail = req[r].detail
    /\ req'[r].body = req[r].body
IdsOf(S) == {x.id : x \in S}
PlansOf(user_id) == {p \in plans : p.user_id = user_id}

\* C1: create_new_user with an email no user has succeeds and returns an id
\* strictly greater than every id returned before, and the row is written; with
\* an email a user already has it fails with 400 "Email already exists" and the
\* users table is unchanged; the close that follows hands that result to the
\* caller.
C1_CreateUser ==
    [][\A r \in Req :
          /\ (StepOf(r, "create_new_user", "insert") /\ Answered(r)) =>
                IF EmailTaken(req[r].email)
                THEN /\ req'[r].status = 400
                     /\ req'[r].detail = "Email already exists"
                     /\ users' = users
                ELSE /\ req'[r].status = 200
                     /\ \A i \in 1..Len(idLog) : req'[r].body[1].id > idLog[i]
                     /\ req'[r].body[1].email = req[r].email
                     /\ req'[r].body[1].name = req[r].name
                     /\ users' = users \cup {req'[r].body[1]}
                     /\ req'[r].body[1] \notin users
          /\ (StepOf(r, "create_new_user", "close") /\ Answered(r)) =>
                (Delivered(r) /\ users' = users)]_vars

\* C1 witness: two users were created one after the other and a third request met
\* the conflict.
C1_Witness ==
    /\ Len(idLog) = 2
    /\ \E r \in Req : req[r].op = "create_new_user" /\ req[r].status = 400 /\ req[r].pc = "done"

\* C2: save_degree_plan for a user id or a program id that is absent from the
\* store ends with 404 (when the database answers every round trip); no step of
\* such a call changes the plans table, whatever fails; and no step that leaves
\* a call with an error changes the plans table.
C2_SaveNotFound ==
    [][\A r \in Req :
          /\ (/\ req'[r].op = "save_degree_plan" /\ Ended(req'[r]) /\ Answered(r)
              /\ \/ \A u \in users' : u.id # req'[r].user_id
                 \/ \A p \in programs' : p.id # req'[r].program_id)
                => req'[r].status = 404
          /\ (/\ req[r].op = "save_degree_plan" /\ req'[r] # req[r]
              /\ \/ \A u \in users : u.id # req[r].user_id
                 \/ \A p \in programs : p.id # req[r].program_id)
                => (plans' = plans /\ nextPlanId' = nextPlanId)
          /\ (/\ req[r].op = "save_degree_plan" /\ req'[r] # req[r]
              /\ req'[r].status # 200)
                => (plans' = plans /\ nextPlanId' = nextPlanId)]_vars

\* C2 witness: a save for an absent program has ended with 404 and its connection
\* is closed, while the user exists.
C2_Witness ==
    \E r \in Req :
       /\ req[r].op = "save_degree_plan" /\ req[r].pc = "done" /\ req[r].status = 404
       /\ SelectUserId(req[r].user_id) # {} /\ req[r].user_id # 0
       /\ SelectProgramId(req[r].program_id) = {}

\* C3 (as claimed): for every user id and program id that both exist, 0 included,
\* save_degree_plan succeeds, and get_user_plans then lists every plan of the
\* user with a plan_data deep-equal to the payload that was submitted.
C3_SaveThenList ==
    [][\A r \in Req :
          /\ (StepOf(r, "save_degree_plan", "user_check") /\ Answered(r)
                /\ SelectUserId(req[r].user_id) # {})
                => req'[r].pc = "program_check"
          /\ (StepOf(r, "save_degree_plan", "program_check") /\ Answered(r)
                /\ SelectProgramId(req[r].program_id) # {})
                => req'[r].pc = "insert"
          /\ (StepOf(r, "save_degree_plan", "insert") /\ Answered(r))
                => /\ req'[r].status = 200
                   /\ \E p \in plans' \ plans :
                         /\ p.id = req'[r].body[1].plan_id
                         /\ p.user_id = req[r].user_id
                         /\ p.program_id = req[r].program_id
          /\ (StepOf(r, "get_user_plans", "fetch") /\ Answered(r))
                => /\ req'[r].status = 200
                   /\ \A p \in PlansOf(req[r].user_id) :
                         \E i \in 1..Len(req'[r].body[1].plans) :
                            /\ req'[r].body[1].plans[i].id = p.id
                            /\ \E sub \in submitted :
                                  /\ sub[1] = p.id
                                  /\ JsonEq(req'[r].body[1].plans[i].plan_data, sub[2],
                                            FALSE)]_vars

\* C3, for the ids Python holds true (every step of the claim but the ids equal
\* to 0): the part of the claim the handlers keep.
SaveThenListNonZero ==
    [][\A r \in Req :
          /\ (StepOf(r, "save_degree_plan", "user_check") /\ Answered(r)
                /\ SelectUserId(req[r].user_id) # {} /\ req[r].user_id # 0)
                => req'[r].pc = "program_check"
          /\ (StepOf(r, "save_degree_plan", "program_check") /\ Answered(r)
                /\ SelectProgramId(req[r].program_id) # {} /\ req[r].program_id # 0)
                => req'[r].pc = "insert"
          /\ (StepOf(r, "save_degree_plan", "insert") /\ Answered(r))
                => /\ req'[r].status = 200
                   /\ \E p \in plans' \ plans :
                         /\ p.id = req'[r].body[1].plan_id
                         /\ p.user_id = req[r].user_id
                         /\ p.program_id = req[r].program_id
          /\ (StepOf(r, "get_user_plans", "fetch") /\ Answered(r))
                => /\ req'[r].status = 200
                   /\ \A p \in PlansOf(req[r].user_id) :
                         \E i \in 1..Len(req'[r].body[1].plans) :
                            /\ req'[r].body[1].plans[i].id = p.id
                            /\ \E sub \in submitted :
                                  /\ sub[1] = p.id
                                  /\ JsonEq(req'[r].body[1].plans[i].plan_data, sub[2],
                                            FALSE)]_vars

\* C4 (as claimed): no completed request leaves its connection open.
C4_ConnectionReleased ==
    \A r \in Req : req[r].pc = "done" => req[r].conn # "open"

\* C5: every plan row refers to an existing user row and an existing program row,
\* in every state any interleaving of the requests reaches.
C5_Referential ==
    \A p \in plans :
       /\ \E u \in users : u.id = p.user_id
       /\ \E pr \in programs : pr.id = p.program_id

\* C5 witness: a signup and a save ran concurrently, and the plan that was saved
\* belongs to the user the signup created.
C5_Witness ==
    \E r1, r2 \in Req :
       /\ req[r1].op = "create_new_user" /\ req[r1].status = 200 /\ req[r1].pc = "close"
       /\ req[r2].op = "save_degree_plan" /\ req[r2].status = 200 /\ req[r2].pc = "close"
       /\ req[r2].user_id = req[r1].body[1].id
       /\ \E p \in plans : p.id = req[r2].body[1].plan_id /\ p.user_id = req[r1].body[1].id

\* C6: get_courses_for_program for a program id that is not in the programs table
\* produces no courses list and does not run the courses query, whatever fails,
\* and ends with 404 (not 500) when the database answers every round trip.
C6_CoursesNotFound ==
    \A r \in Req :
       (/\ req[r].op = "get_courses_for_program" /\ Ended(req[r])
        /\ SelectProgram(req[r].program_id) = {})
          => /\ req[r].body = <<>>
             /\ req[r].trail \in {<<>>, <<"program">>}
             /\ req[r].err = "none" =>
                   (req[r].status = 404 /\ req[r].trail = <<"program">>)

\* C6 witness: the 404 for an absent program has left the handler, connection closed.
C6_Witness ==
    \E r \in Req :
       /\ req[r].op = "get_courses_for_program" /\ req[r].pc = "done"
       /\ req[r].status = 404 /\ req[r].conn = "closed"
       /\ SelectProgram(req[r].program_id) = {}

ListsPlansOf(r, strict) ==
    LET listed == req'[r].body[1].plans IN
    /\ req'[r].status = 200
    /\ Len(listed) = Cardinality(PlansOf(req[r].user_id))
    /\ {listed[i].id : i \in 1..Len(listed)} = IdsOf(PlansOf(req[r].user_id))
    /\ \A i \in 1..Len(listed) : listed[i].user_id = req[r].user_id
    /\ req'[r].body[1].count = Len(listed)
    /\ \A i \in 1..Len(listed) : \A j \in 1..Len(listed) :
          j = i + 1 => IF strict THEN listed[i].created_at > listed[j].created_at
                       ELSE listed[i].created_at >= listed[j].created_at

\* C7 (as claimed): get_user_plans returns exactly the plans of the user, each
\* plan's created_at strictly greater than that of the plan after it.
C7_StrictlyDescending ==
    [][\A r \in Req :
          (StepOf(r, "get_user_plans", "fetch") /\ Answered(r)) => ListsPlansOf(r, TRUE)]_vars

\* C7 (amended): get_user_plans returns exactly the plans of the user, each plan's
\* created_at greater than or equal to that of the plan after it; the close that
\* follows hands that list to the caller.
C7_Descending ==
    [][\A r \in Req :
          /\ (StepOf(r, "get_user_plans", "fetch") /\ Answered(r)) => ListsPlansOf(r, FALSE)
          /\ (StepOf(r, "get_user_plans", "close") /\ Answered(r)) => Delivered(r)]_vars

\* C7 witness: a listing of two plans of one user, the newer one first.
C7_Witness ==
    \E r \in Req :
       /\ req[r].op = "get_user_plans" /\ req[r].status = 200
       /\ Len(req[r].body[1].plans) = 2
       /\ req[r].body[1].plans[1].created_at > req[r].body[1].plans[2].created_at

\* C8: get_all_schools returns every school name of the programs table exactly
\* once, in ascending order, with count the number of distinct names; its steps
\* leave the store unchanged, two calls return the same result, and the close
\* that follows hands it to the caller.
C8_Schools ==
    [][\A r \in Req :
          /\ (StepOf(r, "get_all_schools", "fetch") /\ Answered(r))
                => LET schools == req'[r].body[1].schools
                       names == {p.school_name : p \in programs} IN
                   /\ req'[r].status = 200
                   /\ \A n \in names :
                         Cardinality({i \in 1..Len(schools) : schools[i] = n}) = 1
                   /\ \A i \in 1..Len(schools) : schools[i] \in names
                   /\ \A i \in 1..Len(schools) : \A j \in 1..Len(schools) :
                         i < j => StrLess(schools[i], schools[j])
                   /\ req'[r].body[1].count = Cardinality(names)
                   /\ \A r2 \in Req :
                         (req[r2].op = "get_all_schools" /\ req[r2].status = 200)
                            => req[r2].body = req'[r].body
          /\ (StepOf(r, "get_all_schools", "close") /\ Answered(r)) => Delivered(r)
          /\ (req'[r].op = "get_all_schools" /\ req'[r] # req[r]) => store' = store]_vars

\* C8 witness: two calls have both returned, with two names for three programs.
C8_Witness ==
    \E r1, r2 \in Req :
       /\ r1 # r2
       /\ req[r1].op = "get_all_schools" /\ req[r1].status = 200
       /\ req[r2].op = "get_all_schools" /\ req[r2].status = 200
       /\ Len(req[r1].body[1].schools) = 2 /\ Cardinality(programs) = 3

\* C9: test_database never raises: whatever fails, it returns a normal response
\* whose payload has status "error" and the connection parameters with the
\* password masked; the payload has status "success" only when every step
\* succeeded.
C9_TestDbNeverRaises ==
    \A r \in Req :
       (req[r].op = "test_database" /\ req[r].pc = "done") =>
          /\ req[r].status = 200
          /\ Len(req[r].body) = 1
          /\ IF req[r].err # "none"
             THEN /\ req[r].body[1].status = "error"
                  /\ req[r].body[1].database_url_format =
                        <<"postgresql://", DB_USER, "***", DB_HOST, DB_PORT, DB_NAME>>
                  /\ \A i \in 1..Len(req[r].body[1].database_url_format) :
                        req[r].body[1].database_url_format[i] # DB_PASSWORD
                  /\ req[r].body[1].connection_details.user = DB_USER
             ELSE /\ req[r].body[1].status = "success"
                  /\ req[r].trail \in {<<"db_name", "tables", "count", "close">>,
                                       <<"db_name", "tables", "close">>}
                  /\ ("count" \in {req[r].trail[i] : i \in 1..Len(req[r].trail)})
                        <=> ("programs" \in tables)

\* C9 witness: a probe whose statement failed after the connection was opened has
\* returned its diagnostic payload.
C9_Witness ==
    \E r \in Req :
       /\ req[r].op = "test_database" /\ req[r].pc = "done"
       /\ req[r].err = "StatementError" /\ req[r].body[1].status = "error"

\* C10 (as claimed): save_degree_plan checks the user, then the program, then
\* inserts: an absent user gives 404 "User not found" with nothing run after the
\* user check; an existing user and an absent program give 404 "Program not
\* found" with no insert.
C10_ShortCircuit ==
    [][\A r \in Req :
          /\ (StepOf(r, "save_degree_plan", "user_check") /\ Answered(r))
                => IF SelectUserId(req[r].user_id) = {}
                   THEN /\ req'[r].status = 404 /\ req'[r].detail = "User not found"
                        /\ req'[r].pc = "close" /\ req'[r].trail = <<"user_check">>
                   ELSE req'[r].pc = "program_check" /\ req'[r].status = 0
          /\ (StepOf(r, "save_degree_plan", "program_check") /\ Answered(r))
                => IF SelectProgramId(req[r].program_id) = {}
                   THEN /\ req'[r].status = 404 /\ req'[r].detail = "Program not found"
                        /\ req'[r].pc = "close"
                        /\ req'[r].trail = <<"user_check", "program_check">>
                   ELSE req'[r].pc = "insert" /\ req'[r].status = 0
          /\ (req[r].op = "save_degree_plan" /\ req'[r].pc = "close" /\ req[r].pc # "close"
                /\ req'[r].status = 404)
                => /\ plans' = plans
                   /\ req'[r].trail \in {<<"user_check">>, <<"user_check", "program_check">>}]_vars
=============================================================================
